---- MODULE Spec2Model ----
(***************************************************************************)
(* Model of dmitigr::concur::Simple_thread_pool (simple_thread_pool.hpp)   *)
(* and of dmitigr::concur::set_affinity (affinity.hpp).                    *)
(*                                                                         *)
(* Threads are numbered: 0 is the thread that destroys the pool, 1..N are  *)
(* the pool's workers, the following numbers are client threads.  A worker *)
(* that is executing a task is a caller of the public operations too.      *)
(* A critical section that contains no blocking call is one step; the      *)
(* steps of wait_and_run are split where another thread can interfere.     *)
(***************************************************************************)
EXTENDS Integers, Sequences, FiniteSets, TLC

\* ---- bounds of the model ----
MaxWorkers == 2
NClients == 2
MaxTasks == 2
MaxRejected == 1
MaxCpu == 2
MaxHandle == 2
MaxAffCalls == 2

\* ---- program constants ----
CPU_SETSIZE == 1024
EINVAL == 22
ESRCH == 3

\* ---- names ----
Dtor == 0
NoThread == -1
Null == 0
NoRet == -1

WorkerIds == 1..MaxWorkers
Clients == (MaxWorkers + 1)..(MaxWorkers + NClients)
Callers == WorkerIds \cup Clients
Tasks == 1..MaxTasks
Outcomes == {"returns", "std::exception", "other"}

VARIABLES
  pool,          \* lifetime of the object: "none", "failed", "alive", "destroyed"
  req_size,      \* the size the constructor was called with
  is_started_,   \* bool is_started_
  workers_,      \* std::vector<std::thread> workers_: the thread numbers
  queue_,        \* std::queue<std::function<void()>> queue_
  queue_mutex_,  \* owner of queue_mutex_, or NoThread
  work_mutex_,   \* owner of work_mutex_, or NoThread
  pc,            \* position of every worker in wait_and_run
  func,          \* the local func of every worker
  dtor_pc,       \* position of the destructor
  dtor_j,        \* index of the worker the destructor joins next
  op,            \* the public operation every caller is in, or "idle"
  arg,           \* the argument of the caller's submit
  rejected,      \* number of Exceptions thrown by submit
  failed,        \* tasks that raised a failure
  enq_log,       \* tasks in the order they were pushed
  deq_log,       \* tasks in the order they were popped
  start_log,     \* tasks in the order they started to execute
  discarded,     \* tasks removed from the queue by clear()
  hardware_concurrency,  \* std::thread::hardware_concurrency()
  aff_args,      \* arguments of the last set_affinity call
  aff_ret,       \* error code the last set_affinity call returned
  os_calls,      \* the pthread_setaffinity_np calls made, in order
  aff_n          \* number of set_affinity calls made

poolVars == <<pool, req_size, is_started_, workers_, queue_,
              queue_mutex_, work_mutex_, pc, func, dtor_pc, dtor_j,
              op, arg, rejected, failed, enq_log, deq_log, start_log,
              discarded>>
affVars == <<hardware_concurrency, aff_args, aff_ret, os_calls, aff_n>>
vars == <<poolVars, affVars>>

\* ---- helpers ----
Range(s) == {s[i] : i \in 1..Len(s)}

Blocked == {w \in WorkerIds : pc[w] = "blocked"}

\* A read of is_started_ by a worker races with the destructor's write
\* (the destructor holds work_mutex_, the worker queue_mutex_): the read
\* yields the value before or the value after the write, as the steps
\* interleave.
\* queue_size() and size() as they would return if called now
queue_size == Len(queue_)
size == Len(workers_)

\* ---- initial state: no pool constructed ----
PoolInit ==
  /\ pool = "none"
  /\ req_size = 0
  /\ is_started_ = FALSE
  /\ workers_ = <<>>
  /\ queue_ = <<>>
  /\ queue_mutex_ = NoThread
  /\ work_mutex_ = NoThread
  /\ pc = [w \in WorkerIds |-> "none"]
  /\ func = [w \in WorkerIds |-> Null]
  /\ dtor_pc = "idle"
  /\ dtor_j = 1
  /\ op = [c \in Callers |-> "idle"]
  /\ arg = [c \in Callers |-> Null]
  /\ rejected = 0
  /\ failed = {}
  /\ enq_log = <<>>
  /\ deq_log = <<>>
  /\ start_log = <<>>
  /\ discarded = {}

AffIdle ==
  /\ hardware_concurrency = 0
  /\ aff_args = [handle |-> 0, cpu |-> 0]
  /\ aff_ret = NoRet
  /\ os_calls = <<>>
  /\ aff_n = 0

Init == PoolInit /\ AffIdle

\* ---- Simple_thread_pool(size, logger) ----

\* if (!size) throw Exception{...}
size_rejectedNever(sz) == FALSE

size_rejected(sz) == sz = 0

\* workers_.resize(size) and one std::thread per element
start_workersOneShort(sz) == [i \in 1..(sz - 1) |-> i]

start_workers(sz) == [i \in 1..sz |-> i]

\* if (!size) throw; is_started_ = true; workers_.resize(size); every worker
\* is started in wait_and_run.  A started thread sees the is_started_
\* written before it was created.  logger_ is set here and never changed:
\* it is not part of the state, log_error covers every logger.
Constructor(sz) ==
  /\ pool = "none"
  /\ req_size' = sz
  /\ IF size_rejected(sz)
       THEN /\ pool' = "failed"
            /\ UNCHANGED <<is_started_, workers_, pc>>
       ELSE /\ pool' = "alive"
            /\ is_started_' = TRUE
            /\ workers_' = start_workers(sz)
            /\ pc' = [w \in WorkerIds |->
                        IF w \in Range(start_workers(sz)) THEN "lock" ELSE "none"]
  /\ UNCHANGED <<queue_, queue_mutex_, work_mutex_, func, dtor_pc, dtor_j,
                 op, arg, rejected, failed, enq_log, deq_log, start_log,
                 discarded>>
  /\ UNCHANGED affVars

Construct == \E sz \in 0..MaxWorkers : Constructor(sz)

\* ---- wait_and_run(): one worker ----

\* the predicate of state_changed_.wait:
\* [this] { return !queue_.empty() || !is_started_; }
wait_predicateNone(q, started) == TRUE

wait_predicate(q, started) == q # <<>> \/ ~started

\* std::unique_lock lk{queue_mutex_}, or the re-lock inside wait after a
\* wake-up; then the predicate of state_changed_.wait is evaluated
WorkerLock(w) ==
  /\ pc[w] = "lock"
  /\ queue_mutex_ = NoThread
  /\ queue_mutex_' = w
  /\ pc' = [pc EXCEPT ![w] = IF wait_predicate(queue_, is_started_)
                               THEN "check" ELSE "wait"]
  /\ UNCHANGED <<pool, req_size, is_started_, workers_, queue_,
                 work_mutex_, func, dtor_pc, dtor_j, op, arg, rejected,
                 failed, enq_log, deq_log, start_log, discarded>>
  /\ UNCHANGED affVars

\* condition_variable::wait(lk): unlock and block, atomically
WorkerWait(w) ==
  /\ pc[w] = "wait"
  /\ queue_mutex_ = w
  /\ queue_mutex_' = NoThread
  /\ pc' = [pc EXCEPT ![w] = "blocked"]
  /\ UNCHANGED <<pool, req_size, is_started_, workers_, queue_,
                 work_mutex_, func, dtor_pc, dtor_j, op, arg, rejected,
                 failed, enq_log, deq_log, start_log, discarded>>
  /\ UNCHANGED affVars

\* condition_variable::wait(lk) may return without a notification
SpuriousWakeup(w) ==
  /\ pc[w] = "blocked"
  /\ pc' = [pc EXCEPT ![w] = "lock"]
  /\ UNCHANGED <<pool, req_size, is_started_, workers_, queue_,
                 queue_mutex_, work_mutex_, func, dtor_pc, dtor_j, op,
                 arg, rejected, failed, enq_log, deq_log, start_log,
                 discarded>>
  /\ UNCHANGED affVars

\* queue_.front() and queue_.pop()
queue_front(q) == Head(q)

queue_popKeeps(q) == q

queue_pop(q) == Tail(q)

\* else return: where a worker that reads is_started_ as false continues
stoppedContinues == "lock"

stopped == "done"

\* lk goes out of scope at the end of the block, before func() is called:
\* the new owner of queue_mutex_
lk_releaseAfterCall(w) == w

lk_release(w) == NoThread

\* if (is_started_) { assert; func = move(front); assert; pop } else return;
\* then lk goes out of scope
WorkerDispatch(w) ==
  /\ pc[w] = "check"
  /\ queue_mutex_ = w
  /\ IF is_started_
       THEN IF queue_ = <<>> \/ queue_front(queue_) = Null
              THEN \* a DMITIGR_ASSERT fails
                   /\ pc' = [pc EXCEPT ![w] = "assert_failed"]
                   /\ UNCHANGED <<func, queue_, deq_log>>
              ELSE /\ func' = [func EXCEPT ![w] = queue_front(queue_)]
                   /\ queue_' = queue_pop(queue_)
                   /\ deq_log' = Append(deq_log, queue_front(queue_))
                   /\ pc' = [pc EXCEPT ![w] = "call"]
       ELSE /\ pc' = [pc EXCEPT ![w] = stopped]
            /\ UNCHANGED <<func, queue_, deq_log>>
  /\ queue_mutex_' = lk_release(w)
  /\ UNCHANGED <<pool, req_size, is_started_, workers_, work_mutex_,
                 dtor_pc, dtor_j, op, arg, rejected, failed, enq_log,
                 start_log, discarded>>
  /\ UNCHANGED affVars

\* func(): the task starts to execute, outside the lock
WorkerCall(w) ==
  /\ pc[w] = "call"
  /\ start_log' = Append(start_log, func[w])
  /\ pc' = [pc EXCEPT ![w] = "exec"]
  /\ UNCHANGED <<pool, req_size, is_started_, workers_, queue_,
                 queue_mutex_, work_mutex_, func, dtor_pc, dtor_j, op,
                 arg, rejected, failed, enq_log, deq_log, discarded>>
  /\ UNCHANGED affVars

\* log_error(what): if (logger_) logger_(what), inside try/catch (...) {}.
\* The result is the position the worker continues at.
log_errorEscapes(has_logger, logger_throws) ==
  IF has_logger /\ logger_throws THEN "done" ELSE "lock"

log_error(has_logger, logger_throws) ==
  IF ~has_logger THEN "lock"          \* if (logger_) is false
  ELSE IF logger_throws THEN "lock"   \* swallowed by catch (...) {}
  ELSE "lock"                         \* logger_(what) returned

\* func() returns, or it throws and the catch clause calls log_error; then
\* the loop starts over.  A task that is inside a pool operation has not
\* finished.
WorkerReturn(w) ==
  /\ pc[w] = "exec"
  /\ op[w] = "idle"
  /\ \E outcome \in Outcomes, has_logger \in BOOLEAN, logger_throws \in BOOLEAN :
       IF outcome = "returns"
         THEN /\ pc' = [pc EXCEPT ![w] = "lock"]
              /\ UNCHANGED failed
         ELSE /\ pc' = [pc EXCEPT ![w] = log_error(has_logger, logger_throws)]
              /\ failed' = failed \cup {func[w]}
  /\ func' = [func EXCEPT ![w] = Null]
  /\ UNCHANGED <<pool, req_size, is_started_, workers_, queue_,
                 queue_mutex_, work_mutex_, dtor_pc, dtor_j, op, arg,
                 rejected, enq_log, deq_log, start_log, discarded>>
  /\ UNCHANGED affVars

\* ---- ~Simple_thread_pool(), on thread Dtor ----

\* const std::lock_guard lg{work_mutex_}
DtorLock ==
  /\ pool = "alive"
  /\ dtor_pc = "idle"
  /\ work_mutex_ = NoThread
  /\ work_mutex_' = Dtor
  /\ dtor_pc' = "stop"
  /\ UNCHANGED <<pool, req_size, is_started_, workers_, queue_,
                 queue_mutex_, pc, func, dtor_j, op, arg, rejected,
                 failed, enq_log, deq_log, start_log, discarded>>
  /\ UNCHANGED affVars

\* is_started_ = false (queue_mutex_ is not held)
DtorStopKeepsFlag ==
  /\ dtor_pc = "stop"
  /\ is_started_' = is_started_
  /\ dtor_pc' = "notify"
  /\ UNCHANGED <<pool, req_size, workers_, queue_, queue_mutex_,
                 work_mutex_, pc, func, dtor_j, op, arg, rejected,
                 failed, enq_log, deq_log, start_log, discarded>>
  /\ UNCHANGED affVars

DtorStop ==
  /\ dtor_pc = "stop"
  /\ is_started_' = FALSE
  /\ dtor_pc' = "notify"
  /\ UNCHANGED <<pool, req_size, workers_, queue_, queue_mutex_,
                 work_mutex_, pc, func, dtor_j, op, arg, rejected,
                 failed, enq_log, deq_log, start_log, discarded>>
  /\ UNCHANGED affVars

\* state_changed_.notify_all(): every thread blocked in wait is woken
notify_all(p) ==
  [w \in WorkerIds |-> IF p[w] = "blocked" THEN "lock" ELSE p[w]]

DtorNotifyAll ==
  /\ dtor_pc = "notify"
  /\ pc' = notify_all(pc)
  /\ dtor_pc' = "join"
  /\ dtor_j' = 1
  /\ UNCHANGED <<pool, req_size, is_started_, workers_, queue_,
                 queue_mutex_, work_mutex_, func, op, arg, rejected,
                 failed, enq_log, deq_log, start_log, discarded>>
  /\ UNCHANGED affVars

\* worker.join(): returns when the thread has left wait_and_run
DtorJoin ==
  /\ dtor_pc = "join"
  /\ dtor_j <= Len(workers_)
  /\ pc[workers_[dtor_j]] = "done"
  /\ dtor_j' = dtor_j + 1
  /\ UNCHANGED <<pool, req_size, is_started_, workers_, queue_,
                 queue_mutex_, work_mutex_, pc, func, dtor_pc, op, arg,
                 rejected, failed, enq_log, deq_log, start_log, discarded>>
  /\ UNCHANGED affVars

\* the loop is over: lg releases work_mutex_, the members are destroyed
DtorReturn ==
  /\ dtor_pc = "join"
  /\ dtor_j > Len(workers_)
  /\ work_mutex_' = NoThread
  /\ dtor_pc' = "done"
  /\ pool' = "destroyed"
  /\ UNCHANGED <<req_size, is_started_, workers_, queue_,
                 queue_mutex_, pc, func, dtor_j, op, arg, rejected,
                 failed, enq_log, deq_log, start_log, discarded>>
  /\ UNCHANGED affVars

\* ---- the public operations, called by a client or by a running task ----
\* A lock_guard on a free mutex and the critical section behind it are one
\* step; a caller that finds the mutex taken waits in op[c] until it is free.

CanCall(c) ==
  /\ pool = "alive"
  /\ op[c] = "idle"
  /\ c \in WorkerIds => pc[c] = "exec"

Submitted == ({arg[c] : c \in Callers} \cup Range(enq_log)) \ {Null}

\* tasks are numbered in the order submit is entered with them
NextTask == Cardinality(Submitted) + 1

\* if (!function) throw Exception{...}
function_rejectedNever(function) == FALSE

function_rejected(function) == function = Null

\* queue_.push(std::move(function))
queue_pushFront(q, function) == <<function>> \o q

queue_push(q, function) == Append(q, function)

\* state_changed_.notify_one(): one of the blocked threads, if any, is woken
notify_oneNobody(p) == {p}

notify_oneBroadcast(p) ==
  {[w \in WorkerIds |-> IF p[w] = "blocked" THEN "lock" ELSE p[w]]}

notify_one(p) ==
  IF \E w \in WorkerIds : p[w] = "blocked"
    THEN {[p EXCEPT ![w] = "lock"] : w \in {x \in WorkerIds : p[x] = "blocked"}}
    ELSE {p}

\* the critical section of submit: push and notify_one under queue_mutex_
SubmitBody(function) ==
  /\ queue_' = queue_push(queue_, function)
  /\ enq_log' = Append(enq_log, function)
  /\ pc' \in notify_one(pc)

\* submit(function) is called
Submit(c, function) ==
  /\ CanCall(c)
  /\ function # Null => function = NextTask
  /\ function = Null => rejected < MaxRejected
  /\ IF function_rejected(function)
       THEN \* the Exception leaves submit
            /\ rejected' = rejected + 1
            /\ UNCHANGED <<op, arg, queue_, enq_log, pc>>
       ELSE IF queue_mutex_ = NoThread
         THEN /\ SubmitBody(function)
              /\ UNCHANGED <<op, arg, rejected>>
         ELSE /\ op' = [op EXCEPT ![c] = "submit"]
              /\ arg' = [arg EXCEPT ![c] = function]
              /\ UNCHANGED <<rejected, queue_, enq_log, pc>>
  /\ UNCHANGED <<pool, req_size, is_started_, workers_,
                 queue_mutex_, work_mutex_, func, dtor_pc, dtor_j,
                 failed, deq_log, start_log, discarded>>
  /\ UNCHANGED affVars

\* a waiting submit gets queue_mutex_
SubmitResume(c) ==
  /\ op[c] = "submit"
  /\ queue_mutex_ = NoThread
  /\ SubmitBody(arg[c])
  /\ op' = [op EXCEPT ![c] = "idle"]
  /\ arg' = [arg EXCEPT ![c] = Null]
  /\ UNCHANGED <<pool, req_size, is_started_, workers_,
                 queue_mutex_, work_mutex_, func, dtor_pc, dtor_j,
                 rejected, failed, deq_log, start_log, discarded>>
  /\ UNCHANGED affVars

\* queue_ = {}
queue_resetKeepsFront(q) == IF q = <<>> THEN <<>> ELSE <<Head(q)>>

queue_reset(q) == <<>>

\* the critical section of clear: the queue is replaced, state_changed_ is
\* not notified
ClearBodyNotifies ==
  /\ queue_' = queue_reset(queue_)
  /\ discarded' = discarded \cup Range(queue_)
  /\ pc' = notify_all(pc)

ClearBody ==
  /\ queue_' = queue_reset(queue_)
  /\ discarded' = discarded \cup Range(queue_)
  /\ UNCHANGED pc

\* clear() is called
Clear(c) ==
  /\ CanCall(c)
  /\ IF queue_mutex_ = NoThread
       THEN /\ ClearBody
            /\ UNCHANGED op
       ELSE /\ op' = [op EXCEPT ![c] = "clear"]
            /\ UNCHANGED <<queue_, discarded, pc>>
  /\ UNCHANGED <<pool, req_size, is_started_, workers_,
                 queue_mutex_, work_mutex_, func, dtor_pc, dtor_j,
                 arg, rejected, failed, enq_log, deq_log, start_log>>
  /\ UNCHANGED affVars

\* a waiting clear gets queue_mutex_
ClearResume(c) ==
  /\ op[c] = "clear"
  /\ queue_mutex_ = NoThread
  /\ ClearBody
  /\ op' = [op EXCEPT ![c] = "idle"]
  /\ UNCHANGED <<pool, req_size, is_started_, workers_,
                 queue_mutex_, work_mutex_, func, dtor_pc, dtor_j,
                 arg, rejected, failed, enq_log, deq_log, start_log>>
  /\ UNCHANGED affVars

\* queue_size() is called while queue_mutex_ is taken; on a free mutex the
\* call returns queue_.size() and changes nothing
QueueSize(c) ==
  /\ CanCall(c)
  /\ queue_mutex_ # NoThread
  /\ op' = [op EXCEPT ![c] = "queue_size"]
  /\ UNCHANGED <<pool, req_size, is_started_, workers_, queue_,
                 queue_mutex_, work_mutex_, pc, func, dtor_pc, dtor_j,
                 arg, rejected, failed, enq_log, deq_log, start_log,
                 discarded>>
  /\ UNCHANGED affVars

\* a waiting queue_size gets queue_mutex_ and returns
QueueSizeResume(c) ==
  /\ op[c] = "queue_size"
  /\ queue_mutex_ = NoThread
  /\ op' = [op EXCEPT ![c] = "idle"]
  /\ UNCHANGED <<pool, req_size, is_started_, workers_, queue_,
                 queue_mutex_, work_mutex_, pc, func, dtor_pc, dtor_j,
                 arg, rejected, failed, enq_log, deq_log, start_log,
                 discarded>>
  /\ UNCHANGED affVars

\* size() is called while work_mutex_ is taken; on a free mutex the call
\* returns workers_.size() and changes nothing
Size(c) ==
  /\ CanCall(c)
  /\ work_mutex_ # NoThread
  /\ op' = [op EXCEPT ![c] = "size"]
  /\ UNCHANGED <<pool, req_size, is_started_, workers_, queue_,
                 queue_mutex_, work_mutex_, pc, func, dtor_pc, dtor_j,
                 arg, rejected, failed, enq_log, deq_log, start_log,
                 discarded>>
  /\ UNCHANGED affVars

\* a waiting size gets work_mutex_ and returns
SizeResume(c) ==
  /\ op[c] = "size"
  /\ work_mutex_ = NoThread
  /\ op' = [op EXCEPT ![c] = "idle"]
  /\ UNCHANGED <<pool, req_size, is_started_, workers_, queue_,
                 queue_mutex_, work_mutex_, pc, func, dtor_pc, dtor_j,
                 arg, rejected, failed, enq_log, deq_log, start_log,
                 discarded>>
  /\ UNCHANGED affVars

\* ---- the pool's specifications ----
Next ==
  \/ Construct
  \/ \E w \in WorkerIds : WorkerLock(w)
  \/ \E w \in WorkerIds : WorkerWait(w)
  \/ \E w \in WorkerIds : SpuriousWakeup(w)
  \/ \E w \in WorkerIds : WorkerDispatch(w)
  \/ \E w \in WorkerIds : WorkerCall(w)
  \/ \E w \in WorkerIds : WorkerReturn(w)
  \/ DtorLock
  \/ DtorStop
  \/ DtorNotifyAll
  \/ DtorJoin
  \/ DtorReturn
  \/ \E c \in Callers, f \in Tasks \cup {Null} : Submit(c, f)
  \/ \E c \in Callers : SubmitResume(c)
  \/ \E c \in Callers : Clear(c)
  \/ \E c \in Callers : ClearResume(c)
  \/ \E c \in Callers : QueueSize(c)
  \/ \E c \in Callers : QueueSizeResume(c)
  \/ \E c \in Callers : Size(c)
  \/ \E c \in Callers : SizeResume(c)

Spec == Init /\ [][Next]_vars

\* Scheduling: a thread that can take a step of the pool's code takes it,
\* and a thread that waits for a mutex which is free again and again gets
\* it.  Entering an operation or the destructor and a spurious wake-up are
\* up to the environment.  Tasks terminate: a task does not go on calling
\* the pool for ever.
WorkerStep(w) == WorkerWait(w) \/ WorkerDispatch(w) \/ WorkerCall(w)

DtorStep == DtorStop \/ DtorNotifyAll \/ DtorJoin \/ DtorReturn

CallerStep(c) ==
  SubmitResume(c) \/ ClearResume(c) \/ QueueSizeResume(c) \/ SizeResume(c)

Fairness ==
  /\ \A w \in WorkerIds : WF_vars(WorkerStep(w))
  /\ \A w \in WorkerIds : SF_vars(WorkerLock(w))
  /\ \A w \in WorkerIds : SF_vars(WorkerReturn(w))
  /\ WF_vars(DtorStep)
  /\ \A c \in Callers : SF_vars(CallerStep(c))

FairSpec == Init /\ [][Next]_vars /\ Fairness

\* The pool while nobody calls clear() and nobody destroys it.
NextDrain ==
  \/ Construct
  \/ \E w \in WorkerIds : WorkerLock(w)
  \/ \E w \in WorkerIds : WorkerWait(w)
  \/ \E w \in WorkerIds : SpuriousWakeup(w)
  \/ \E w \in WorkerIds : WorkerDispatch(w)
  \/ \E w \in WorkerIds : WorkerCall(w)
  \/ \E w \in WorkerIds : WorkerReturn(w)
  \/ \E c \in Callers, f \in Tasks \cup {Null} : Submit(c, f)
  \/ \E c \in Callers : SubmitResume(c)

DrainSpec == Init /\ [][NextDrain]_vars /\ Fairness

\* ---- set_affinity(handle, cpu) ----
Handles == 0..MaxHandle
CpuValues == (0..MaxCpu) \cup {CPU_SETSIZE - 1, CPU_SETSIZE}
ConcurrencyValues == (0..MaxCpu) \cup {CPU_SETSIZE, CPU_SETSIZE + 1}

\* CPU_ZERO and CPU_SET of <sched.h>: a cpu outside the set's capacity is
\* ignored
CPU_ZERO == {}
CPU_SET(cpu, set) == IF cpu < CPU_SETSIZE THEN set \cup {cpu} ELSE set

\* what pthread_setaffinity_np can return: EINVAL for a mask without a
\* usable cpu, ESRCH for a thread that is gone
OsResults(handle, set) == IF set = {} THEN {EINVAL} ELSE {0, ESRCH, EINVAL}

\* the result: the error code's value (its category is always generic) and
\* the OS calls made, each with the mask it passed and the value it returned
set_affinityNoHandleCheck(handle, cpu, os_err) ==
  IF ~(cpu < hardware_concurrency)
    THEN [ret |-> EINVAL, os |-> <<>>]
    ELSE [ret |-> os_err,
          os |-> <<[handle |-> handle, set |-> CPU_SET(cpu, CPU_ZERO),
                    err |-> os_err]>>]

set_affinity(handle, cpu, os_err) ==
  IF ~(handle # 0 /\ cpu < hardware_concurrency)
    THEN [ret |-> EINVAL, os |-> <<>>]
    ELSE [ret |-> os_err,
          os |-> <<[handle |-> handle, set |-> CPU_SET(cpu, CPU_ZERO),
                    err |-> os_err]>>]

SetAffinity ==
  /\ aff_n < MaxAffCalls
  /\ \E handle \in Handles, cpu \in CpuValues :
       \E os_err \in OsResults(handle, CPU_SET(cpu, CPU_ZERO)) :
         LET r == set_affinity(handle, cpu, os_err) IN
           /\ aff_args' = [handle |-> handle, cpu |-> cpu]
           /\ aff_ret' = r.ret
           /\ os_calls' = os_calls \o r.os
  /\ aff_n' = aff_n + 1
  /\ UNCHANGED hardware_concurrency
  /\ UNCHANGED poolVars

AffInit ==
  /\ PoolInit
  /\ hardware_concurrency \in ConcurrencyValues
  /\ aff_args = [handle |-> 0, cpu |-> 0]
  /\ aff_ret = NoRet
  /\ os_calls = <<>>
  /\ aff_n = 0

AffNext == SetAffinity

AffSpec == AffInit /\ [][AffNext]_vars

\* ---- properties ----

Live(w) == pc[w] \in {"lock", "wait", "blocked", "check", "call", "exec"}
Executing(w) == pc[w] \in {"call", "exec"}
Pushed(t) == t \in Range(enq_log)
Runs(t) == Cardinality({i \in 1..Len(start_log) : start_log[i] = t})
Executed(t) == Runs(t) >= 1 /\ \A w \in WorkerIds : func[w] # t
IsPrefix(s, t) == Len(s) <= Len(t) /\ SubSeq(t, 1, Len(s)) = s
Kept(t) == t \notin discarded
Count(s, t) == Cardinality({i \in 1..Len(s) : s[i] = t})
Holders(t) == {w \in WorkerIds : func[w] = t}

\* C1: once the destructor has started, it eventually returns with every
\* worker terminated (under fair scheduling).
C1_DestructionCompletes ==
  (dtor_pc # "idle") ~> (dtor_pc = "done" /\ \A i \in 1..size : pc[workers_[i]] = "done")

\* C2: without clear() and destruction every pushed task is executed exactly
\* once: it never starts twice and it is eventually run to its end.
C2_ExactlyOnce ==
  /\ [](\A t \in Tasks : Runs(t) <= 1)
  /\ \A t \in Tasks : Pushed(t) ~> Executed(t)

C2_Witness ==
  /\ size = 2
  /\ enq_log = <<2, 1>>
  /\ \A t \in Tasks : Executed(t)
  /\ \E i \in 1..2 : pc[i] = "blocked"

\* C3: the tasks popped so far followed by the tasks still queued are the
\* pushed tasks that no clear() removed, in push order; with one worker the
\* tasks start in that order too.
C3_Fifo ==
  /\ deq_log \o queue_ = SelectSeq(enq_log, Kept)
  /\ size = 1 => IsPrefix(start_log, SelectSeq(enq_log, Kept))

C3_Witness ==
  /\ size = 1
  /\ enq_log = <<2, 1>>
  /\ start_log = <<2, 1>>

\* C4: a step of clear() leaves the queue empty and discards exactly what was
\* queued, and a discarded task is never queued, popped or run again.
C4_ClearDiscards ==
  /\ [](discarded \cap (Range(queue_) \cup Range(deq_log) \cup Range(start_log)) = {})
  /\ [][(\E c \in Callers : op[c] = "clear" /\ op'[c] = "idle")
          => (queue_size' = 0 /\ discarded' = discarded \cup Range(queue_))]_vars

C4_Witness ==
  /\ Cardinality(discarded) = 2
  /\ \E w \in WorkerIds : pc[w] = "wait"
  /\ \E w \in WorkerIds : pc[w] = "blocked"

\* C5: a worker whose task raised a failure goes back to the start of its
\* loop, all N workers stay alive while the pool is not shut down, and a task
\* queued after a failure is still executed.
C5_FailureContained ==
  /\ [](pool = "alive" /\ dtor_pc = "idle"
          => \A w \in WorkerIds : w <= req_size => Live(w))
  /\ [][\A w \in WorkerIds : pc[w] = "exec" /\ pc'[w] # "exec" => pc'[w] = "lock"]_vars
  /\ \A t \in Tasks : (failed # {} /\ t \in Range(queue_)) ~> Executed(t)

C5_Witness ==
  /\ failed = {1}
  /\ Executed(2)
  /\ \A w \in WorkerIds : w <= req_size => Live(w)

\* C6: an empty function never gets past the check of submit: it is never
\* an argument of the push, never queued, never popped; the step that throws
\* changes nothing of the pool but the count of exceptions.
C6_NullRejected ==
  /\ [](/\ \A c \in Callers : arg[c] # Null => op[c] = "submit"
        /\ \A c \in Callers : op[c] = "submit" => arg[c] # Null
        /\ Null \notin Range(queue_) \cup Range(enq_log) \cup Range(deq_log))
  /\ [][rejected' # rejected
          => UNCHANGED <<queue_, pc, op, arg, enq_log, queue_mutex_, func>>]_vars

C6_Witness ==
  /\ rejected = 1
  /\ queue_size = 1
  /\ Blocked # {}

\* C7: a constructor called with size 0 throws and leaves the pool not
\* started, without workers.
C7_EmptyPoolRejected ==
  (req_size = 0 /\ pool # "none")
    => /\ pool = "failed"
       /\ ~is_started_
       /\ size = 0
       /\ \A w \in WorkerIds : pc[w] = "none"

C7_Witness == pool = "failed"

\* C8: from construction with size N >= 1 to the end of the destructor
\* size() is N and exactly the threads 1..N exist.
C8_SizeConstant ==
  pool = "alive"
    => /\ req_size >= 1
       /\ size = req_size
       /\ {w \in WorkerIds : pc[w] # "none"} = 1..req_size

C8_Witness ==
  /\ pool = "alive"
  /\ req_size = MaxWorkers
  /\ dtor_pc = "join"
  /\ failed # {}
  /\ discarded # {}

\* C9: a caller of submit, clear, queue_size or size never waits for a lock
\* whose release depends on a task coming to its end.
C9_NeverWaitsForTask ==
  \A c \in Callers :
    /\ op[c] = "size"
         => ~(work_mutex_ = Dtor /\ \E w \in WorkerIds : Executing(w))
    /\ op[c] \in {"submit", "clear", "queue_size"}
         => ~(queue_mutex_ \in WorkerIds /\ \E w \in WorkerIds : w = queue_mutex_ /\ Executing(w))

\* C10: a set_affinity call with a null handle or with cpu >= the reported
\* concurrency returns invalid_argument and makes no OS call.
C10_InvalidArgument ==
  [][(aff_n' # aff_n /\ (aff_args'.handle = 0 \/ aff_args'.cpu >= hardware_concurrency))
       => (aff_ret' = EINVAL /\ os_calls' = os_calls)]_vars

C10_Witness ==
  /\ aff_n = 2
  /\ aff_args.handle = 0
  /\ aff_args.cpu < hardware_concurrency
  /\ Len(os_calls) = 1

\* C11: no worker is blocked in the wait once the destructor has set
\* is_started_ to false and has sent its broadcast: the check of the flag and
\* the blocking are atomic against the flip and the broadcast.
C11_NoMissedWakeup ==
  (~is_started_ /\ dtor_pc \in {"join", "done"})
    => \A w \in WorkerIds : pc[w] # "blocked"

\* C12: the assertions of the dispatch never fail: a worker that has left the
\* wait and reads is_started_ as true finds a queue that is not empty and
\* whose front is a callable.
C12_DispatchAssertionsHold ==
  \A w \in WorkerIds :
    /\ pc[w] # "assert_failed"
    /\ (pc[w] = "check" /\ is_started_)
         => (queue_ # <<>> /\ queue_front(queue_) # Null)

\* a worker is about to dispatch while the other one has taken a task, a
\* clear() waits for the lock and the destructor is under way
C12_Witness ==
  /\ \E w \in WorkerIds : pc[w] = "check" /\ is_started_
  /\ \E w \in WorkerIds : pc[w] = "exec"
  /\ \E c \in Callers : op[c] = "clear"
  /\ dtor_pc = "stop"

\* C13: the queue changes only in a step of the thread that has taken
\* queue_mutex_, and every pushed task is in exactly one place: once in the
\* queue, or popped once (by one worker that holds it until it has finished),
\* or discarded by clear().
C13_SingleOwner ==
  /\ [](\A t \in Tasks : Pushed(t) =>
          /\ Count(queue_, t) + Count(deq_log, t)
               + (IF t \in discarded THEN 1 ELSE 0) = 1
          /\ Cardinality(Holders(t)) <= 1
          /\ \A w \in Holders(t) : Count(deq_log, t) = 1 /\ Executing(w))
  /\ [](\A w \in WorkerIds : Executing(w) => func[w] \in Range(deq_log))
  /\ [][queue_' # queue_ =>
          \/ queue_mutex_ = NoThread /\ queue_mutex_' = NoThread
          \/ \E w \in WorkerIds : /\ queue_mutex_ = w
                                   /\ pc[w] = "check"
                                   /\ func'[w] = queue_front(queue_)
                                   /\ queue_' = Tail(queue_)]_vars

\* both workers hold a task of their own while the destructor joins
C13_Witness ==
  /\ func[1] # Null
  /\ func[2] # Null
  /\ pc[1] = "exec"
  /\ pc[2] = "call"
  /\ dtor_pc = "join"

\* C14: a worker that executes a task holds neither queue_mutex_ nor
\* work_mutex_, and a caller that waits in submit, clear or queue_size waits
\* for a worker that is inside the wait or the dispatch, never for a task.
C14_NoLockWhileExecuting ==
  /\ \A w \in WorkerIds : Executing(w) => (queue_mutex_ # w /\ work_mutex_ # w)
  /\ \A c \in Callers : op[c] \in {"submit", "clear", "queue_size"}
       => \/ queue_mutex_ = NoThread
          \/ /\ queue_mutex_ \in WorkerIds \ {c}
             /\ pc[queue_mutex_] \in {"wait", "check"}

\* N tasks are in execution at the same time
C14_Witness ==
  /\ size = MaxWorkers
  /\ \A w \in WorkerIds : pc[w] = "exec" /\ func[w] # Null
  /\ queue_mutex_ = NoThread

\* C15: a worker that reads the pool as not running leaves its loop for good:
\* the step pops nothing and terminates the worker, a terminated worker stays
\* terminated and holds no task, and once a worker has terminated no task is
\* popped or started any more, whatever is queued or pushed later.
C15_StopIsFinal ==
  /\ [][\A w \in WorkerIds :
          (pc[w] = "check" /\ ~is_started_ /\ pc'[w] # "check")
            => (pc'[w] = "done" /\ UNCHANGED <<queue_, deq_log, func>>)]_vars
  /\ [][\A w \in WorkerIds : pc[w] = "done" => pc'[w] = "done"]_vars
  /\ [](\A w \in WorkerIds : pc[w] = "done" => func[w] = Null)
  /\ [][(\E w \in WorkerIds : pc[w] = "done")
          => /\ deq_log' = deq_log
             /\ \/ queue_' = queue_
                \/ queue_' = <<>>
                \/ \E t \in Tasks : queue_' = Append(queue_, t)]_vars

\* a worker has terminated and the queue holds two tasks that no worker
\* will take
C15_Witness ==
  /\ \E w \in WorkerIds : pc[w] = "done"
  /\ queue_ = <<1, 2>>
  /\ dtor_pc = "join"

\* nothing but the end of the task takes a popped task from its worker, and
\* the destructor has returned only when every worker has terminated
InFlightKept ==
  /\ [](dtor_pc = "done" => \A w \in WorkerIds :
          (w <= req_size => pc[w] = "done") /\ ~Executing(w))
  /\ [][\A w \in WorkerIds : (Executing(w) /\ func'[w] # func[w])
          => (pc[w] = "exec" /\ op[w] = "idle" /\ pc'[w] = "lock")]_vars

\* C16: a popped task runs to its end: neither clear() nor the shutdown takes
\* it from its worker, every task in execution eventually finishes, and the
\* destructor has returned only when every worker has terminated and no task
\* is in execution.
C16_RunsToCompletion ==
  /\ InFlightKept
  /\ \A w \in WorkerIds : Executing(w) ~> ~Executing(w)

\* the workers whose position a step changes
Moved == {w \in WorkerIds : pc'[w] # pc[w]}

\* C17: the step of a successful submit appends the task at the tail of the
\* queue, wakes one blocked worker if there is one and no other thread, and
\* changes nothing else; the caller is back before the task has started.
C17_SubmitFrame ==
  [][enq_log' # enq_log =>
      \E t \in Tasks :
        /\ enq_log' = Append(enq_log, t)
        /\ queue_' = Append(queue_, t)
        /\ Len(queue_') = queue_size + 1
        /\ Cardinality(Moved) = (IF Blocked = {} THEN 0 ELSE 1)
        /\ \A w \in Moved : pc[w] = "blocked" /\ pc'[w] = "lock"
        /\ \A c \in Callers : \/ (op'[c] = "idle" /\ arg'[c] = Null)
                                \/ (op'[c] = op[c] /\ arg'[c] = arg[c])
        /\ t \notin Range(deq_log') \cup Range(start_log')
        /\ UNCHANGED <<pool, req_size, is_started_, workers_, queue_mutex_,
                       work_mutex_, func, dtor_pc, dtor_j, rejected, failed,
                       deq_log, start_log, discarded>>]_vars

\* a task was submitted while both workers were blocked: one of them has
\* been woken, the other one is still blocked
C17_Witness ==
  /\ size = 2
  /\ enq_log = <<1>>
  /\ queue_ = <<1>>
  /\ \E w \in WorkerIds : pc[w] = "lock"
  /\ \E w \in WorkerIds : pc[w] = "blocked"

\* a step of clear(): it discards a task, or a waiting clear() returns
ClearStep ==
  \/ discarded' # discarded
  \/ \E c \in Callers : op[c] = "clear" /\ op'[c] = "idle"

\* C18: a step of clear() changes the queue and nothing else of the pool: no
\* worker changes its position (none is woken), the tasks the workers hold,
\* is_started_ and the workers are as before.
C18_ClearFrame ==
  [][ClearStep =>
       /\ Moved = {}
       /\ Blocked' = Blocked
       /\ queue_' = <<>>
       /\ UNCHANGED <<pool, req_size, is_started_, workers_, queue_mutex_,
                      work_mutex_, func, dtor_pc, dtor_j, arg, rejected,
                      failed, enq_log, deq_log, start_log>>]_vars

\* a clear() has discarded a task while one worker was executing the other
\* task and one worker was blocked in the wait
C18_Witness ==
  /\ discarded = {2}
  /\ queue_ = <<>>
  /\ \E w \in WorkerIds : pc[w] = "exec" /\ func[w] = 1
  /\ \E w \in WorkerIds : pc[w] = "blocked"

\* C19: is_started_ is true from the successful construction to the
\* destructor's write and false from then on: it changes only in these two
\* steps and never goes back to true.
C19_FlagOneWay ==
  /\ []((pool = "alive" /\ dtor_pc \in {"idle", "stop"}) => is_started_)
  /\ [](dtor_pc \in {"notify", "join", "done"} => ~is_started_)
  /\ [](pool \in {"none", "failed"} => ~is_started_)
  /\ [][is_started_' # is_started_ =>
          \/ (pool = "none" /\ pool' = "alive" /\ is_started_')
          \/ (dtor_pc = "stop" /\ dtor_pc' = "notify" /\ ~is_started_')]_vars
  /\ [][(pool # "none" /\ ~is_started_) => ~is_started_']_vars

\* the pool was used, stopped and destroyed; a task pushed during the
\* shutdown is still queued
C19_Witness ==
  /\ pool = "destroyed"
  /\ ~is_started_
  /\ start_log # <<>>
  /\ queue_ # <<>>

\* C20: a set_affinity call with a non-null handle and cpu < the reported
\* concurrency makes exactly one OS call, for that handle with the mask {cpu},
\* and returns what that call returned.
C20_OneCallExactMask ==
  [][(aff_n' # aff_n /\ aff_args'.handle # 0
        /\ aff_args'.cpu < hardware_concurrency)
       => /\ Len(os_calls') = Len(os_calls) + 1
          /\ SubSeq(os_calls', 1, Len(os_calls)) = os_calls
          /\ os_calls'[Len(os_calls')].handle = aff_args'.handle
          /\ os_calls'[Len(os_calls')].set = {aff_args'.cpu}
          /\ aff_ret' = os_calls'[Len(os_calls')].err]_vars

====
